---- MODULE Spec2Model ----
(***************************************************************************)
(* Model of the BVA decision sync pipeline:                                *)
(*   src/lib/bva-api/client.ts  (BVAApiClient: search, detail, pagination) *)
(*   src/lib/bva-api/parser.ts  (parseBVADecision, normalizeSectionName)   *)
(*   src/lib/bva-api/sync.ts    (BVASyncService: syncDecisions,            *)
(*                               extractOutcome, updateSyncMetadata)       *)
(*   src/lib/db/migrations/0000_nostalgic_namor.sql (unique indexes)       *)
(*                                                                         *)
(* The upstream search service, the LLM and the database driver are the    *)
(* environment: every response they can give (a result, an error) is drawn *)
(* non-deterministically, unless the variable oracle fixes the upstream.   *)
(***************************************************************************)
EXTENDS Integers, Sequences, FiniteSets, TLC

(***************************************************************************)
(* Bounds of the model.                                                    *)
(***************************************************************************)
\* runs of syncDecisions in one behaviour
MaxRuns == 2
\* search requests the upstream answers with has_more = true in one run
MaxMorePages == 1
\* decisions the upstream serves in search responses over one behaviour
MaxServed == 2
\* failures (network, upstream, database) injected over one behaviour
MaxFaults == 1
\* largest explicit maxDecisions option
MaxCeiling == 1
\* most matches of the upstream the pagination specification drains
MaxMatches == 250
\* most paragraphs of a decision the parse specification parses
MaxParagraphs == 3
\* last reading of the clock in the specification whose clock advances
MaxClock == 3
\* most items of the batch in the specification of runs with many errors
MaxErrorItems == 4
\* the client specification draws the statuses 400..400+MaxStatusSpan and
\* 500..500+MaxStatusSpan
MaxStatusSpan == 20

(***************************************************************************)
(* Program constants.                                                      *)
(***************************************************************************)
\* const limit = 100 in fetchAllDecisions
limit == 100
\* options.maxDecisions || 100
DefaultMaxDecisions == 100
\* client.ts 181: the milliseconds the generator waits between two requests
DelayMs == 500

(***************************************************************************)
(* JavaScript values: numbers, strings, null and undefined.                *)
(***************************************************************************)
Num(n) == [t |-> "number", v |-> n]
Str(s) == [t |-> "string", v |-> s]
Null == [t |-> "null"]
Undefined == [t |-> "undefined"]

\* the JavaScript truthiness of a value (the left operand of ||)
Truthy(x) ==
  CASE x.t = "number" -> x.v # 0
    [] x.t = "string" -> Len(x.v) > 0
    [] x.t = "boolean" -> x.v
    [] OTHER -> FALSE

\* a ?? b
OrElseNullish(a, b) == IF a.t \in {"undefined", "null"} THEN b ELSE a

\* a || b
OrElse(a, b) == IF Truthy(a) THEN a ELSE b

(***************************************************************************)
(* The upstream's data.                                                    *)
(***************************************************************************)
Citations == {"23-0001", "23-0002"}

\* BVADecisionSummary, reduced to the two fields the pipeline reads
Summary(id, citation_number) == [id |-> id, citation_number |-> citation_number]

\* the summaries the upstream of the sync specifications serves: one per
\* citation, each with its own upstream id
Summaries == {Summary("d1", "23-0001"), Summary("d2", "23-0002")}

(***************************************************************************)
(* HTTP layer seen by BVAApiClient: what fetch() can do.                   *)
(***************************************************************************)
Unreachable == [kind |-> "unreachable", message |-> "fetch failed"]
BadBody == [kind |-> "badbody", status |-> 200,
            message |-> "Unexpected token in JSON"]
HttpStatus(s) == [kind |-> "status", status |-> s]
HttpOk(data) == [kind |-> "ok", status |-> 200, body |-> data]
HttpFailures == {Unreachable, HttpStatus(404), HttpStatus(500), BadBody}

\* new BVAApiError(message, statusCode)
BVAApiError(message, statusCode) ==
  [name |-> "BVAApiError", message |-> message, statusCode |-> statusCode]

Threw(e) == [ok |-> FALSE, error |-> e]
Returned(v) == [ok |-> TRUE, value |-> v]

\* a searchDecisions that reports a body it cannot decode with the status of
\* the response
searchDecisionsKeepsStatus(http) ==
  CASE http.kind = "ok" -> Returned(http.body)
    [] http.kind = "status" -> Threw(BVAApiError("API error", http.status))
    [] http.kind = "badbody" ->
         Threw(BVAApiError("Network error: " \o http.message, http.status))
    [] OTHER -> Threw(BVAApiError("Network error: " \o http.message, 0))

\* BVAApiClient.searchDecisions on the HTTP outcome http
searchDecisions(http) ==
  CASE http.kind = "ok" -> Returned(http.body)
    [] http.kind = "status" -> Threw(BVAApiError("API error", http.status))
    [] OTHER -> Threw(BVAApiError("Network error: " \o http.message, 0))

\* a getDecision that lets the failure of fetch through as it is
getDecisionRaw(citationNumber, http) ==
  CASE http.kind = "ok" -> Returned(http.body)
    [] http.kind = "status" -> Threw(BVAApiError("API error", http.status))
    [] OTHER -> Threw([name |-> "TypeError", message |-> http.message])

\* BVAApiClient.getDecision on the HTTP outcome http
getDecision(citationNumber, http) ==
  CASE http.kind = "ok" -> Returned(http.body)
    [] http.kind = "status" /\ http.status = 404 ->
         Threw(BVAApiError("Decision not found: " \o citationNumber, 404))
    [] http.kind = "status" -> Threw(BVAApiError("API error", http.status))
    [] OTHER -> Threw(BVAApiError("Network error: " \o http.message, 0))

\* a health check that lets the failure of fetch through
healthCheckThrows(http) ==
  IF http.kind = "unreachable"
  THEN Threw([name |-> "TypeError", message |-> http.message])
  ELSE Returned([t |-> "boolean", v |-> http.status \in 200..299])

\* BVAApiClient.healthCheck on the HTTP outcome http: response.ok, or false
\* when fetch throws
healthCheck(http) ==
  IF http.kind = "unreachable"
  THEN Returned([t |-> "boolean", v |-> FALSE])
  ELSE Returned([t |-> "boolean", v |-> http.status \in 200..299])

(***************************************************************************)
(* fetchAllDecisions: the async generator, as a record                     *)
(*   offset, hasMore : its locals                                          *)
(*   atYield         : suspended at the yield of the last result           *)
(*   lastHasMore     : result.has_more of the result it yielded            *)
(*   finished        : the generator has returned                          *)
(***************************************************************************)
GenStart ==
  [offset |-> 0, hasMore |-> TRUE, atYield |-> FALSE, lastHasMore |-> FALSE,
   finished |-> FALSE]

\* the search parameters of the next request
GenRequest(gen) == [offset |-> gen.offset, limit |-> limit]

\* a generator that never takes has_more from the result
GenAdvanceAlways(gen, has_more) ==
  [gen EXCEPT !.hasMore = TRUE, !.offset = gen.offset + limit,
              !.atYield = FALSE]

\* a generator that asks for the same page again
GenAdvanceKeepsOffset(gen, has_more) ==
  [gen EXCEPT !.hasMore = has_more, !.atYield = FALSE]

\* lines 176-177: hasMore = result.has_more; offset += limit
GenAdvance(gen, has_more) ==
  [gen EXCEPT !.hasMore = has_more, !.offset = gen.offset + limit,
              !.atYield = FALSE]

\* a generator that yields every result
GenYieldsAlways(result) == TRUE

\* lines 172-174: a result with decisions is yielded, an empty one is not
GenYields(result) == Len(result.decisions) > 0

\* the generator after searchDecisions returned result, up to its next
\* suspension (the yield) or the loop head
GenOnResult(gen, result) ==
  IF GenYields(result)
  THEN [gen EXCEPT !.atYield = TRUE, !.lastHasMore = result.has_more]
  ELSE GenAdvance(gen, result.has_more)

\* the consumer asks for the next batch while the generator sits at the yield
GenResume(gen) == GenAdvance(gen, gen.lastHasMore)

\* a generator that delays after every response
GenDelaysAlways(gen) == TRUE

\* line 181: the 500 ms delay is taken exactly when hasMore is still true
GenDelays(gen) == gen.hasMore

\* the while (hasMore) loop head
GenLoops(gen) == gen.hasMore /\ ~gen.finished

\* break out of for await: the generator's return() is called
GenReturn(gen) == [gen EXCEPT !.finished = TRUE, !.atYield = FALSE]

(***************************************************************************)
(* Strings the parser looks into are sequences of one-character strings.   *)
(***************************************************************************)
UpperCase == <<"A","B","C","D","E","F","G","H","I","J","K","L","M",
               "N","O","P","Q","R","S","T","U","V","W","X","Y","Z">>
LowerCase == <<"a","b","c","d","e","f","g","h","i","j","k","l","m",
               "n","o","p","q","r","s","t","u","v","w","x","y","z">>
WhiteSpace == {" ", "\n", "\t", "\r"}

LowerChar(c) ==
  IF \E i \in 1..Len(UpperCase) : UpperCase[i] = c
  THEN LowerCase[CHOOSE i \in 1..Len(UpperCase) : UpperCase[i] = c]
  ELSE c

\* String.prototype.toLowerCase
toLowerCase(s) == [i \in 1..Len(s) |-> LowerChar(s[i])]

\* String.prototype.trim
trim(s) ==
  LET keep == {i \in 1..Len(s) : s[i] \notin WhiteSpace}
  IN IF keep = {} THEN <<>>
     ELSE LET lo == CHOOSE i \in keep : \A j \in keep : i <= j
              hi == CHOOSE i \in keep : \A j \in keep : j <= i
          IN SubSeq(s, lo, hi)

\* String.prototype.includes
includes(s, sub) ==
  \E i \in 1..(Len(s) - Len(sub) + 1) : SubSeq(s, i, i + Len(sub) - 1) = sub

\* the section names and the vocabulary of normalizeSectionName
W_introduction == <<"i","n","t","r","o","d","u","c","t","i","o","n">>
W_intro == <<"i","n","t","r","o">>
W_finding == <<"f","i","n","d","i","n","g">>
W_fact == <<"f","a","c","t">>
W_analysis == <<"a","n","a","l","y","s","i","s">>
W_discussion == <<"d","i","s","c","u","s","s","i","o","n">>
W_reason == <<"r","e","a","s","o","n">>
W_base == <<"b","a","s","e">>
W_conclusion == <<"c","o","n","c","l","u","s","i","o","n">>
W_order == <<"o","r","d","e","r">>
W_evidence == <<"e","v","i","d","e","n","c","e">>
W_procedural == <<"p","r","o","c","e","d","u","r","a","l">>
W_findings_of_fact ==
  <<"f","i","n","d","i","n","g","s","_","o","f","_","f","a","c","t">>
W_reasons_and_bases ==
  <<"r","e","a","s","o","n","s","_","a","n","d","_","b","a","s","e","s">>
W_procedural_history ==
  <<"p","r","o","c","e","d","u","r","a","l","_","h","i","s","t","o","r","y">>
W_content == <<"c","o","n","t","e","n","t">>

\* a normalization that tries the rule of reasons and bases first
normalizeReasonsFirst(sectionName) ==
  LET name == trim(toLowerCase(sectionName))
  IN IF includes(name, W_reason) /\ includes(name, W_base)
     THEN W_reasons_and_bases
     ELSE IF includes(name, W_introduction) \/ includes(name, W_intro)
     THEN W_introduction
     ELSE IF includes(name, W_finding) \/ includes(name, W_fact)
     THEN W_findings_of_fact
     ELSE IF includes(name, W_analysis) \/ includes(name, W_discussion)
     THEN W_analysis
     ELSE IF includes(name, W_conclusion) \/ includes(name, W_order)
     THEN W_conclusion
     ELSE IF includes(name, W_evidence) THEN W_evidence
     ELSE IF includes(name, W_procedural) THEN W_procedural_history
     ELSE sectionName

\* normalizeSectionName(sectionName)
normalizeSectionName(sectionName) ==
  LET name == trim(toLowerCase(sectionName))
  IN IF includes(name, W_introduction) \/ includes(name, W_intro)
     THEN W_introduction
     ELSE IF includes(name, W_finding) \/ includes(name, W_fact)
     THEN W_findings_of_fact
     ELSE IF includes(name, W_analysis) \/ includes(name, W_discussion)
     THEN W_analysis
     ELSE IF includes(name, W_reason) /\ includes(name, W_base)
     THEN W_reasons_and_bases
     ELSE IF includes(name, W_conclusion) \/ includes(name, W_order)
     THEN W_conclusion
     ELSE IF includes(name, W_evidence) THEN W_evidence
     ELSE IF includes(name, W_procedural) THEN W_procedural_history
     ELSE sectionName

\* line 14: para.section || 'content'
SectionKey(para) == OrElse(para.section, Str(W_content)).v

\* lines 12-19 of parseBVADecision: the buckets after the first n paragraphs,
\* before the clean-up; a bucket is keyed by the paragraph's own label
RECURSIVE SectionsRaw(_, _)
SectionsRaw(paragraphs, n) ==
  IF n = 0 THEN << >>
  ELSE LET prev == SectionsRaw(paragraphs, n - 1)
           key == SectionKey(paragraphs[n])
           old == IF key \in DOMAIN prev THEN prev[key] ELSE <<>>
           new == old \o paragraphs[n].text \o <<"\n", "\n">>
       IN [k \in (DOMAIN prev) \cup {key} |-> IF k = key THEN new ELSE prev[k]]

\* lines 12-24 of parseBVADecision: the section -> text mapping
Sections(paragraphs) ==
  LET raw == SectionsRaw(paragraphs, Len(paragraphs))
  IN [k \in DOMAIN raw |-> trim(raw[k])]

(***************************************************************************)
(* The upstream's decision detail (BVADecisionDetail), reduced to the      *)
(* fields the pipeline reads.  A body without paragraphs is what a         *)
(* malformed answer decodes to.                                            *)
(***************************************************************************)
Arr(seq) == [t |-> "array", v |-> seq]
Bool(b) == [t |-> "boolean", v |-> b]

\* the upstream's updated_at of every decision (the local clock starts later)
UpstreamUpdatedAt == 0

SampleParagraphs == << [section |-> Undefined, text |-> <<"a">>] >>

DetailOf(summary) ==
  [id |-> summary.id, citation_number |-> summary.citation_number,
   paragraphs |-> Arr(SampleParagraphs), updated_at |-> UpstreamUpdatedAt]

MalformedDetailOf(summary) ==
  [DetailOf(summary) EXCEPT !.paragraphs = Undefined]

\* an Error thrown by the runtime or the database driver
Error(message) == [name |-> "Error", message |-> message]

\* randomUUID(): an identifier no stored row has (fresh identifiers are
\* interchangeable, the least one stands for all of them)
UuidPool == 1..(Cardinality(Citations) + 2)
randomUUID(table) ==
  CHOOSE u \in UuidPool :
    /\ \A r \in table : r.id # u
    /\ \A v \in UuidPool : (\A r \in table : r.id # v) => u <= v

\* parseBVADecision(apiDecision), with the randomUUID() and the new Date()
\* it reads
parseBVADecision(apiDecision, uuid, date) ==
  IF apiDecision.paragraphs.t # "array"
  THEN Threw(Error("paragraphs is not iterable"))
  ELSE Returned(
         [id |-> uuid,
          citationNumber |-> apiDecision.citation_number,
          bvaApiId |-> apiDecision.id,
          sections |-> Sections(apiDecision.paragraphs.v),
          syncedAt |-> date,
          lastUpdated |-> apiDecision.updated_at])

(***************************************************************************)
(* extractOutcome: the LLM call and JSON.parse of its answer.              *)
(* Confidence is held in hundredths: Num(95) is 0.95.                      *)
(***************************************************************************)
LlmThrows == [kind |-> "throw"]
LlmText(text) == [kind |-> "text", text |-> text]

T_granted == "{\"outcome\":\"Granted\",\"confidence\":0.95}"
T_deniedNoConf == "{\"outcome\":\"Denied\"}"
T_mixedConf0 == "{\"outcome\":\"Mixed\",\"confidence\":0}"
T_remandedConf7 == "{\"outcome\":\"Remanded\",\"confidence\":7}"
T_approved == "{\"outcome\":\"Approved\",\"confidence\":0.8}"
T_noOutcome == "{\"confidence\":0.9}"
T_null == "null"
T_prose == "The appeal was granted."
T_empty == ""

LlmTexts ==
  {T_granted, T_deniedNoConf, T_mixedConf0, T_remandedConf7, T_approved,
   T_noOutcome, T_null, T_prose, T_empty}

Obj(outcome, confidence) ==
  [t |-> "object", outcome |-> outcome, confidence |-> confidence]

\* JSON.parse(text) on the texts of LlmTexts
JSONparse(text) ==
  CASE text = T_granted -> Returned(Obj(Str("Granted"), Num(95)))
    [] text = T_deniedNoConf -> Returned(Obj(Str("Denied"), Undefined))
    [] text = T_mixedConf0 -> Returned(Obj(Str("Mixed"), Num(0)))
    [] text = T_remandedConf7 -> Returned(Obj(Str("Remanded"), Num(700)))
    [] text = T_approved -> Returned(Obj(Str("Approved"), Num(80)))
    [] text = T_noOutcome -> Returned(Obj(Undefined, Num(90)))
    [] text = T_null -> Returned(Null)
    [] OTHER -> Threw(Error("Unexpected token"))

\* lines 220-226: the catch of extractOutcome
UnknownHalf == [outcome |-> Str("Unknown"), confidence |-> Num(50)]

UnknownOutcome == [outcome |-> Str("Unknown"), confidence |-> Num(0)]

\* an extraction that passes the confidence on as it is
OutcomeNoDefault(response) ==
  LET parsed == JSONparse(response)
  IN IF ~parsed.ok THEN UnknownOutcome
     ELSE IF parsed.value.t = "null" THEN UnknownOutcome
     ELSE [outcome |-> parsed.value.outcome,
           confidence |-> parsed.value.confidence]

\* lines 214-219, after generate returned response
OutcomeOfResponse(response) ==
  LET parsed == JSONparse(response)
  IN IF ~parsed.ok THEN UnknownOutcome
     ELSE IF parsed.value.t = "null" THEN UnknownOutcome
     ELSE [outcome |-> parsed.value.outcome,
           confidence |-> OrElse(parsed.value.confidence, Num(50))]

\* extractOutcome(decision), on what flashClient.generate does
extractOutcome(llm) ==
  IF llm.kind = "throw" THEN UnknownOutcome ELSE OutcomeOfResponse(llm.text)

(***************************************************************************)
(* The decisions table: a set of rows under the primary key id and the     *)
(* unique indexes on citation_number and bva_api_id.                       *)
(***************************************************************************)
\* a lookup on the wrong column
findFirstByApiId(table, citationNumber) ==
  {r \in table : r.bvaApiId = citationNumber}

\* db.query.decisions.findFirst({where: eq(citationNumber, c)})
findFirst(table, citationNumber) ==
  {r \in table : r.citationNumber = citationNumber}

\* a row that would break the primary key or the bva_api_id index against
\* the rows of others
Clashes(row, others) ==
  \E r \in others : r.id = row.id \/ r.bvaApiId = row.bvaApiId

\* an upsert whose conflict target is the primary key
UpsertOnPrimaryKey(table, row, date) ==
  Returned({r \in table : r.id # row.id} \cup {row})

\* an insert with no conflict clause and no unique index
UpsertInsertOnly(table, row, date) == Returned(table \cup {row})

\* the value a column gets from v: the insert stores null for a value that
\* is undefined, the update set leaves out a value that is undefined, so the
\* column keeps what the stored row has
Inserted(v) == IF v = Undefined THEN Null ELSE v

\* an update that also leaves out a value that is null
UpdatedUnlessNullish(v, stored) == IF v \in {Undefined, Null} THEN stored ELSE v

Updated(v, stored) == IF v = Undefined THEN stored ELSE v

\* an upsert that leaves only the written row in the table
UpsertReplaceAll(table, row, date) == Returned({row})

\* db.insert(decisions).values(row).onConflictDoUpdate({target:
\* citationNumber, set: {...row, lastUpdated: date}})
Upsert(table, row, date) ==
  LET existing == findFirst(table, row.citationNumber)
      others == table \ existing
      written ==
        IF existing = {}
        THEN [row EXCEPT !.outcome = Inserted(row.outcome),
                         !.outcomeConfidence = Inserted(row.outcomeConfidence)]
        ELSE LET old == CHOOSE r \in existing : TRUE
             IN [row EXCEPT
                   !.lastUpdated = date,
                   !.outcome = Updated(row.outcome, old.outcome),
                   !.outcomeConfidence =
                      Updated(row.outcomeConfidence, old.outcomeConfidence)]
  IN IF Clashes(written, others)
     THEN Threw(Error("UNIQUE constraint failed"))
     ELSE Returned(others \cup {written})

\* a status row that always says completed
MetadataRowCompleted(result, date) ==
  [id |-> "latest", lastSyncDate |-> date, totalDecisions |-> result.synced,
   lastSyncStatus |-> "completed", lastSyncError |-> Null]

\* a status row that names the citations of all the errors
MetadataRowAllErrors(result, date) ==
  [MetadataRowCompleted(result, date) EXCEPT
     !.lastSyncStatus = IF Len(result.errors) > 0 THEN "completed_with_errors"
                        ELSE "completed",
     !.lastSyncError =
        IF Len(result.errors) > 0
        THEN [count |-> Len(result.errors),
              citations |-> [i \in 1..Len(result.errors) |->
                               result.errors[i].citationNumber]]
        ELSE Null]

\* lines 234-253: the row updateSyncMetadata writes for result at time date
MetadataRow(result, date) ==
  [id |-> "latest",
   lastSyncDate |-> IF result.endTime.t = "number" THEN result.endTime.v
                    ELSE date,
   totalDecisions |-> result.synced,
   lastSyncStatus |-> IF Len(result.errors) > 0 THEN "completed_with_errors"
                      ELSE "completed",
   lastSyncError |->
     IF Len(result.errors) > 0
     THEN [count |-> Len(result.errors),
           citations |-> [i \in 1..(IF Len(result.errors) < 3
                                    THEN Len(result.errors) ELSE 3) |->
                            result.errors[i].citationNumber]]
     ELSE Null]

\* an insert that appends the row
UpsertMetadataAppend(table, row) == table \cup {row}

\* db.insert(syncMetadata).values(row).onConflictDoUpdate({target: id, ...})
UpsertMetadata(table, row) ==
  {r \in table : r.id # row.id} \cup {row}

(***************************************************************************)
(* State.                                                                  *)
(***************************************************************************)
VARIABLES
  decisionsTable,     \* the decisions table
  syncMetadataTable,  \* the sync_metadata table
  now,                \* the clock new Date() reads
  oracle,             \* what the environment may do in this behaviour
  served,             \* decisions the upstream has served in search responses
  faults,             \* failures injected so far
  runs,               \* calls of syncDecisions started so far
  pc,                 \* where the current call of syncDecisions is
  options,            \* its options argument
  result,             \* its SyncResult
  decisionsProcessed, \* its local decisionsProcessed
  gen,                \* the fetchAllDecisions generator it iterates
  batch,              \* the yielded batch, from the item the inner loop is at
  item,               \* locals of the loop body: parsed, outcome
  thrown,             \* the error syncDecisions threw
  calls,              \* history: requests made by the current run
  itemOps,            \* history: steps taken for the current item
  head,               \* history: the state at the head of the current item
  ended,              \* history: one entry per finished run
  peer                \* the locals of a second call of syncDecisions that
                      \* is suspended at an await while this one runs

vars ==
  <<decisionsTable, syncMetadataTable, now, oracle, served, faults, runs, pc,
    options, result, decisionsProcessed, gen, batch, item, thrown, calls,
    itemOps, head, ended, peer>>

\* the options of syncDecisions the model draws
MaxDecisionsOptions == {Undefined} \cup {Num(n) : n \in 1..MaxCeiling}
SyncOptions ==
  [maxDecisions : MaxDecisionsOptions,
   skipExisting : {Undefined, Bool(TRUE)},
   extractOutcomes : {Undefined, Bool(FALSE)}]

\* a ceiling that is always the default
maxDecisionsDefault(opts) == DefaultMaxDecisions

\* line 64: options.maxDecisions || 100
maxDecisionsOf(opts) == OrElse(opts.maxDecisions, Num(DefaultMaxDecisions)).v
maxDecisions == maxDecisionsOf(options)

\* line 107: options.extractOutcomes !== false
ExtractionEnabled == options.extractOutcomes # Bool(FALSE)

NoItem == [parsed |-> Undefined, outcome |-> Null, outcomeConfidence |-> Null]
NoCalls == [searches |-> 0, yields |-> 0, delays |-> 0, waited |-> 0,
            lookups |-> 0, fetches |-> 0, classifies |-> 0, upserts |-> 0]
NoHead == [end |-> "none"]
NewResult(date) ==
  [total |-> 0, synced |-> 0, skipped |-> 0, errors |-> <<>>,
   startTime |-> date, endTime |-> Undefined, duration |-> Undefined]

\* the locals of a call of syncDecisions that has not begun
NoPeer ==
  [pc |-> "idle",
   options |-> [maxDecisions |-> Undefined, skipExisting |-> Undefined,
                extractOutcomes |-> Undefined],
   result |-> NewResult(1), decisionsProcessed |-> 0, gen |-> GenStart,
   batch |-> <<>>, item |-> NoItem, thrown |-> Null, calls |-> NoCalls,
   itemOps |-> <<>>, head |-> NoHead]

Running == pc \notin {"idle", "returned", "thrown"}
\* a loop that takes the items of the batch from its end
LastOfBatch == batch[Len(batch)]

summary == Head(batch)

(***************************************************************************)
(* The environment's choices.                                              *)
(***************************************************************************)
\* time that passes during an await: none, or one tick while the clock the
\* behaviour is given has ticks left
Ticks == IF now < oracle.clockEnd THEN {0, 1} ELSE {0}

RECURSIVE SeqsUpTo(_, _)
SeqsUpTo(S, n) ==
  IF n <= 0 THEN {<<>>}
  ELSE LET shorter == SeqsUpTo(S, n - 1)
       IN shorter \cup {Append(q, x) : q \in shorter, x \in S}

\* whether the environment may fail one more request
MayFail == faults < oracle.maxFaults

\* failures of the HTTP layer the sync specifications draw: the search
\* endpoint cannot be reached, the decision is not found
SearchFailures == IF MayFail THEN {Unreachable} ELSE {}
DetailFailures == IF MayFail THEN {HttpStatus(404)} ELSE {}
\* the answers of the LLM in the profiles of Spec and SpecClock
SyncLlmResponses == {LlmThrows, LlmText(T_prose), LlmText(T_granted)}

\* page number (from 1) of the request at offset
PageOf(offset) == offset \div limit + 1

OraclePage(offset) ==
  LET k == PageOf(offset)
  IN IF k <= Len(oracle.pages)
     THEN [decisions |-> oracle.pages[k], has_more |-> k < Len(oracle.pages)]
     ELSE [decisions |-> <<>>, has_more |-> FALSE]

\* the i-th match of an upstream that holds matches of the two summaries
MatchAt(i) ==
  IF i % 2 = 1 THEN Summary("d1", "23-0001") ELSE Summary("d2", "23-0002")

\* the answer of an upstream with n matches to request: the matches from
\* the offset on, at most limit of them, has_more while matches remain
MatchesPage(n, request) ==
  LET last == IF request.offset + request.limit < n
              THEN request.offset + request.limit ELSE n
      count == IF last > request.offset THEN last - request.offset ELSE 0
  IN [decisions |-> [i \in 1..count |-> MatchAt(request.offset + i)],
      has_more |-> request.offset + request.limit < n]

SearchHttp(request) ==
  IF oracle.free
  THEN SearchFailures \cup
       {HttpOk([decisions |-> b, has_more |-> h]) :
          b \in SeqsUpTo(Summaries, oracle.maxServed - served),
          h \in IF PageOf(request.offset) <= MaxMorePages
                THEN BOOLEAN ELSE {FALSE}}
  ELSE IF oracle.drain
  THEN {HttpOk(MatchesPage(oracle.matches, request))}
  ELSE {HttpOk(OraclePage(request.offset))}

DetailHttp(s) ==
  IF oracle.free
  THEN DetailFailures \cup {HttpOk(DetailOf(s))} \cup
       (IF MayFail THEN {HttpOk(MalformedDetailOf(s))} ELSE {})
  ELSE {IF oracle.missing[s.citation_number] THEN HttpStatus(404)
        ELSE HttpOk(DetailOf(s))}

LlmResponses(s) ==
  IF oracle.free THEN oracle.answers ELSE {oracle.llm[s.citation_number]}

\* whether a database statement succeeds
DbAnswers == IF oracle.free /\ MayFail THEN {TRUE, FALSE} ELSE {TRUE}
DbError == Error("database is unavailable")

\* the environment failed a request
Fault(failed) == faults' = faults + (IF failed THEN 1 ELSE 0)

(***************************************************************************)
(* syncDecisions, one action per stretch of code between two awaits.       *)
(***************************************************************************)
Count(field) == calls' = [calls EXCEPT ![field] = calls[field] + 1]

\* a catch that records nothing
CatchItemSilent(res, s, e) == res

\* lines 133-138: the catch at the item boundary
CatchItem(res, s, e) ==
  [res EXCEPT !.errors = Append(res.errors,
     [decisionId |-> s.id, citationNumber |-> s.citation_number,
      error |-> e.message])]

\* an outer catch that leaves the timing alone
CatchRunNoTiming(res, date) == res

\* lines 168-169: the outer catch finalizes the timing
CatchRun(res, date) ==
  [res EXCEPT !.endTime = Num(date), !.duration = Num(date - res.startTime)]

\* lines 155-156: the timing of a run that returns
Finish(res, date) ==
  [res EXCEPT !.endTime = Num(date), !.duration = Num(date - res.startTime)]

\* line 80
CountTotal(res) == [res EXCEPT !.total = res.total + 1]
\* line 90
CountSkipped(res) == [res EXCEPT !.skipped = res.skipped + 1]

\* a loop body that does not count the synced item
CountSyncedNever(res) == res

\* line 129
CountSynced(res) == [res EXCEPT !.synced = res.synced + 1]

\* lines 75 and 147: the ceiling test
LimitExceeded(processed, max) == processed > max

LimitReached(processed, max) == processed >= max

\* history of finished runs, kept when the upstream is fixed
Ended(threw) ==
  IF oracle.free THEN ended
  ELSE Append(ended, [options |-> options, threw |-> threw,
                      table |-> decisionsTable])

\* a catch that records the error and tries the item again
ItemFailedRetry(e) ==
  /\ result' = CatchItem(result, summary, e)
  /\ batch' = batch
  /\ item' = NoItem
  /\ head' = [head EXCEPT !.end = "error"]
  /\ pc' = "fetch"

\* the item ended in the catch: record the error, then go to the next item
ItemFailed(e) ==
  /\ result' = CatchItem(result, summary, e)
  /\ batch' = Tail(batch)
  /\ item' = NoItem
  /\ head' = [head EXCEPT !.end = "error"]
  /\ pc' = "item"

\* the run ended by throwing e (lines 167-172)
RunThrew(e, date) ==
  /\ result' = CatchRun(result, date)
  /\ thrown' = e
  /\ pc' = "thrown"
  /\ ended' = Ended(TRUE)

\* lines 47-66: a call of syncDecisions up to its first request for a batch
StartRun ==
  /\ ~Running
  /\ runs < MaxRuns
  /\ \E o \in oracle.options : options' = o
  /\ runs' = runs + 1
  /\ result' = NewResult(now)
  /\ decisionsProcessed' = 0
  /\ gen' = GenStart
  /\ batch' = <<>>
  /\ item' = NoItem
  /\ thrown' = Null
  /\ calls' = NoCalls
  /\ itemOps' = <<>>
  /\ head' = NoHead
  /\ pc' = "next"
  /\ UNCHANGED <<decisionsTable, syncMetadataTable, now, oracle, served,
                 faults, ended>>
  /\ UNCHANGED peer

\* a request for a page whose failure rolls the run's upserts back
SearchRollsBack ==
  /\ pc = "next"
  /\ ~gen.atYield
  /\ GenLoops(gen)
  /\ \E http \in SearchHttp(GenRequest(gen)), dt \in Ticks :
       LET r == searchDecisions(http)
       IN /\ now' = now + dt
          /\ Fault(~r.ok)
          /\ IF r.ok
             THEN /\ gen' = GenOnResult(gen, r.value)
                  /\ served' = served + Len(r.value.decisions)
                  /\ batch' = IF GenYields(r.value) THEN r.value.decisions
                              ELSE batch
                  /\ pc' = IF GenYields(r.value) /\ ~oracle.drain THEN "item"
                          ELSE "next"
                  /\ calls' = [calls EXCEPT
                       !.searches = calls.searches + 1,
                       !.yields = calls.yields +
                         (IF GenYields(r.value) THEN 1 ELSE 0),
                       !.delays = calls.delays +
                         (IF ~GenYields(r.value) /\ GenDelays(gen') THEN 1 ELSE 0),
                       !.waited = calls.waited +
                         (IF ~GenYields(r.value) /\ GenDelays(gen')
                          THEN DelayMs ELSE 0)]
                  /\ UNCHANGED <<result, thrown, ended, decisionsTable>>
             ELSE /\ RunThrew(r.error, now')
                  /\ gen' = GenReturn(gen)
                  /\ Count("searches")
                  /\ decisionsTable' = {}
                  /\ UNCHANGED <<batch, served>>
  /\ UNCHANGED <<syncMetadataTable, oracle, runs, options,
                 decisionsProcessed, item, itemOps, head>>
  /\ UNCHANGED peer

\* client.ts 165-174: the generator requests a page; a failure of the request
\* leaves the generator and the for await, into the outer catch
Search ==
  /\ pc = "next"
  /\ ~gen.atYield
  /\ GenLoops(gen)
  /\ \E http \in SearchHttp(GenRequest(gen)), dt \in Ticks :
       LET r == searchDecisions(http)
       IN /\ now' = now + dt
          /\ Fault(~r.ok)
          /\ IF r.ok
             THEN /\ gen' = GenOnResult(gen, r.value)
                  /\ served' = served + Len(r.value.decisions)
                  /\ batch' = IF GenYields(r.value) THEN r.value.decisions
                              ELSE batch
                  /\ pc' = IF GenYields(r.value) /\ ~oracle.drain THEN "item"
                          ELSE "next"
                  /\ calls' = [calls EXCEPT
                       !.searches = calls.searches + 1,
                       !.yields = calls.yields +
                         (IF GenYields(r.value) THEN 1 ELSE 0),
                       !.delays = calls.delays +
                         (IF ~GenYields(r.value) /\ GenDelays(gen') THEN 1 ELSE 0),
                       !.waited = calls.waited +
                         (IF ~GenYields(r.value) /\ GenDelays(gen')
                          THEN DelayMs ELSE 0)]
                  /\ UNCHANGED <<result, thrown, ended>>
             ELSE /\ RunThrew(r.error, now')
                  /\ gen' = GenReturn(gen)
                  /\ Count("searches")
                  /\ UNCHANGED <<batch, served>>
  /\ UNCHANGED <<decisionsTable, syncMetadataTable, oracle, runs, options,
                 decisionsProcessed, item, itemOps, head>>
  /\ UNCHANGED peer

\* client.ts 176-182: the consumer asks for the next batch and the generator
\* goes on after its yield
Resume ==
  /\ pc = "next"
  /\ gen.atYield
  /\ gen' = GenResume(gen)
  /\ calls' = [calls EXCEPT
       !.delays = calls.delays + (IF GenDelays(gen') THEN 1 ELSE 0),
       !.waited = calls.waited + (IF GenDelays(gen') THEN DelayMs ELSE 0)]
  /\ \E dt \in Ticks : now' = now + dt
  /\ UNCHANGED <<decisionsTable, syncMetadataTable, oracle, served, faults,
                 runs, pc, options, result, decisionsProcessed, batch, item,
                 thrown, itemOps, head, ended>>
  /\ UNCHANGED peer

\* a generator that does not return when its loop is over
ExhaustedHangs ==
  /\ pc = "next"
  /\ ~gen.atYield
  /\ ~GenLoops(gen)
  /\ UNCHANGED vars

\* client.ts 165: while (hasMore) ends, the generator returns and the
\* for await is over
Exhausted ==
  /\ pc = "next"
  /\ ~gen.atYield
  /\ ~GenLoops(gen)
  /\ gen' = GenReturn(gen)
  /\ pc' = IF oracle.drain THEN "drained" ELSE "meta"
  /\ UNCHANGED <<decisionsTable, syncMetadataTable, now, oracle, served,
                 faults, runs, options, result, decisionsProcessed, batch,
                 item, thrown, calls, itemOps, head, ended>>
  /\ UNCHANGED peer

\* lines 73-94 and 146-149: the head of the inner loop
ItemHead ==
  /\ pc = "item"
  /\ IF batch = <<>> \/ LimitReached(decisionsProcessed, maxDecisions)
     THEN \* the inner loop is over; line 147 decides about the outer one
          /\ IF LimitReached(decisionsProcessed, maxDecisions)
             THEN gen' = GenReturn(gen) /\ pc' = "meta"
             ELSE gen' = gen /\ pc' = "next"
          /\ UNCHANGED <<result, itemOps, head>>
     ELSE /\ result' = CountTotal(result)
          /\ itemOps' = <<>>
          /\ head' = [end |-> "open", summary |-> summary, before |-> result,
                      table |-> decisionsTable, calls |-> calls,
                      processed |-> decisionsProcessed,
                      stored |-> \E r \in decisionsTable :
                        r.citationNumber = summary.citation_number,
                      rest |-> Tail(batch), llm |-> "none"]
          /\ pc' = IF Truthy(options.skipExisting) THEN "lookup" ELSE "fetch"
          /\ gen' = gen
  /\ UNCHANGED <<decisionsTable, syncMetadataTable, now, oracle, served,
                 faults, runs, options, decisionsProcessed, batch, item,
                 thrown, calls, ended>>
  /\ UNCHANGED peer

\* lines 84-94: the existence lookup of skipExisting
Lookup ==
  /\ pc = "lookup"
  /\ itemOps' = Append(itemOps, "lookup")
  /\ Count("lookups")
  /\ \E dbOk \in DbAnswers, dt \in Ticks :
       /\ now' = now + dt
       /\ Fault(~dbOk)
       /\ IF ~dbOk THEN ItemFailed(DbError)
          ELSE IF findFirst(decisionsTable, summary.citation_number) # {}
          THEN /\ result' = CountSkipped(result)
               /\ batch' = Tail(batch)
               /\ pc' = "item"
               /\ item' = item
               /\ head' = [head EXCEPT !.end = "skipped"]
          ELSE /\ pc' = "fetch"
               /\ UNCHANGED <<result, batch, item, head>>
  /\ UNCHANGED <<decisionsTable, syncMetadataTable, oracle, served, runs,
                 options, decisionsProcessed, gen, thrown, ended>>
  /\ UNCHANGED peer

\* lines 96-112: the detail fetch and, once it returned, the parse
FetchDetail ==
  /\ pc = "fetch"
  /\ Count("fetches")
  /\ \E http \in DetailHttp(summary), dt \in Ticks :
       LET r == getDecision(summary.citation_number, http)
           held == IF peer.item.parsed = Undefined THEN {}
                   ELSE {peer.item.parsed}
           p == parseBVADecision(r.value, randomUUID(decisionsTable \cup held),
                                 now')
       IN /\ now' = now + dt
          /\ IF ~r.ok
             THEN /\ ItemFailed(r.error)
                  /\ itemOps' = Append(itemOps, "fetch")
                  /\ Fault(TRUE)
             ELSE IF ~p.ok
             THEN /\ ItemFailed(p.error)
                  /\ itemOps' = itemOps \o <<"fetch", "parse">>
                  /\ Fault(TRUE)
             ELSE /\ item' = [item EXCEPT !.parsed = p.value]
                  /\ itemOps' = itemOps \o <<"fetch", "parse">>
                  /\ pc' = IF ExtractionEnabled THEN "classify" ELSE "upsert"
                  /\ Fault(FALSE)
                  /\ UNCHANGED <<result, batch, head>>
  /\ UNCHANGED <<decisionsTable, syncMetadataTable, oracle, served, runs,
                 options, decisionsProcessed, gen, thrown, ended>>
  /\ UNCHANGED peer

\* lines 107-112: extractOutcome, which catches every failure of the call
Classify ==
  /\ pc = "classify"
  /\ itemOps' = Append(itemOps, "classify")
  /\ Count("classifies")
  /\ \E llm \in LlmResponses(summary), dt \in Ticks :
       LET outcomeResult == extractOutcome(llm)
       IN /\ now' = now + dt
          /\ item' = [item EXCEPT
               !.outcome = outcomeResult.outcome,
               !.outcomeConfidence = outcomeResult.confidence]
          /\ head' = [head EXCEPT !.llm =
               IF llm.kind = "throw" \/ ~JSONparse(llm.text).ok
               THEN "failed" ELSE "answered"]
  /\ pc' = "upsert"
  /\ UNCHANGED <<decisionsTable, syncMetadataTable, oracle, served, faults,
                 runs, options, result, decisionsProcessed, gen, batch, thrown,
                 ended>>
  /\ UNCHANGED peer

\* the values of the insert of lines 115-118
RowOf(it) ==
  [id |-> it.parsed.id,
   citationNumber |-> it.parsed.citationNumber,
   bvaApiId |-> it.parsed.bvaApiId,
   sections |-> it.parsed.sections,
   syncedAt |-> it.parsed.syncedAt,
   lastUpdated |-> it.parsed.lastUpdated,
   outcome |-> it.outcome,
   outcomeConfidence |-> it.outcomeConfidence]

\* an upsert whose failure leaves the row behind
UpsertDecisionPartial ==
  /\ pc = "upsert"
  /\ itemOps' = Append(itemOps, "upsert")
  /\ Count("upserts")
  /\ \E dbOk \in DbAnswers, dt \in Ticks :
       LET w == IF dbOk THEN Upsert(decisionsTable, RowOf(item), now)
                ELSE Threw(DbError)
       IN /\ now' = now + dt
          /\ Fault(~dbOk)
          /\ IF w.ok
             THEN /\ decisionsTable' = w.value
                  /\ result' = CountSynced(result)
                  /\ decisionsProcessed' = decisionsProcessed + 1
                  /\ batch' = Tail(batch)
                  /\ item' = NoItem
                  /\ head' = [head EXCEPT !.end = "synced"]
                  /\ pc' = "item"
             ELSE /\ ItemFailed(w.error)
                  /\ decisionsTable' = decisionsTable \cup {RowOf(item)}
                  /\ UNCHANGED decisionsProcessed
  /\ UNCHANGED <<syncMetadataTable, oracle, served, runs, options, gen,
                 thrown, ended>>
  /\ UNCHANGED peer

\* lines 114-131: the upsert and the counting of the item
UpsertDecision ==
  /\ pc = "upsert"
  /\ itemOps' = Append(itemOps, "upsert")
  /\ Count("upserts")
  /\ \E dbOk \in DbAnswers, dt \in Ticks :
       LET w == IF dbOk THEN Upsert(decisionsTable, RowOf(item), now)
                ELSE Threw(DbError)
       IN /\ now' = now + dt
          /\ Fault(~dbOk)
          /\ IF w.ok
             THEN /\ decisionsTable' = w.value
                  /\ result' = CountSynced(result)
                  /\ decisionsProcessed' = decisionsProcessed + 1
                  /\ batch' = Tail(batch)
                  /\ item' = NoItem
                  /\ head' = [head EXCEPT !.end = "synced"]
                  /\ pc' = "item"
             ELSE /\ ItemFailed(w.error)
                  /\ UNCHANGED <<decisionsTable, decisionsProcessed>>
  /\ UNCHANGED <<syncMetadataTable, oracle, served, runs, options, gen,
                 thrown, ended>>
  /\ UNCHANGED peer

\* lines 152-165: updateSyncMetadata, then the timing and the return; a
\* failure of the write goes to the outer catch
UpdateMetadata ==
  /\ pc = "meta"
  /\ \E dbOk \in DbAnswers, dt \in Ticks :
       /\ now' = now + dt
       /\ Fault(~dbOk)
       /\ IF dbOk
          THEN /\ syncMetadataTable' =
                    UpsertMetadata(syncMetadataTable, MetadataRow(result, now))
               /\ result' = Finish(result, now')
               /\ pc' = "returned"
               /\ ended' = Ended(FALSE)
               /\ thrown' = thrown
          ELSE /\ RunThrew(DbError, now')
               /\ syncMetadataTable' = syncMetadataTable
  /\ UNCHANGED <<decisionsTable, oracle, served, runs, options,
                 decisionsProcessed, gen, batch, item, calls, itemOps, head>>
  /\ UNCHANGED peer

(***************************************************************************)
(* The sync specification: any upstream within the bounds, any failures.   *)
(***************************************************************************)
InitRun ==
  /\ decisionsTable = {}
  /\ syncMetadataTable = {}
  /\ now = 1
  /\ served = 0
  /\ faults = 0
  /\ runs = 0
  /\ pc = "idle"
  /\ options = [maxDecisions |-> Undefined, skipExisting |-> Undefined,
                extractOutcomes |-> Undefined]
  /\ result = NewResult(1)
  /\ decisionsProcessed = 0
  /\ gen = GenStart
  /\ batch = <<>>
  /\ item = NoItem
  /\ thrown = Null
  /\ calls = NoCalls
  /\ itemOps = <<>>
  /\ head = NoHead
  /\ ended = <<>>
  /\ peer = NoPeer

Init ==
  /\ InitRun
  /\ oracle = [free |-> TRUE, drain |-> FALSE, clockEnd |-> 1,
               maxFaults |-> MaxFaults, maxServed |-> MaxServed,
               options |-> SyncOptions, answers |-> SyncLlmResponses]

Next ==
  \/ StartRun
  \/ Search
  \/ Resume
  \/ Exhausted
  \/ ItemHead
  \/ Lookup
  \/ FetchDetail
  \/ Classify
  \/ UpsertDecision
  \/ UpdateMetadata

Spec == Init /\ [][Next]_vars

(***************************************************************************)
(* Claims about the sync specification.                                    *)
(***************************************************************************)
Last(q) == q[Len(q)]
CitationsOf(table) == {r.citationNumber : r \in table}
ItemEnded == head.end \in {"synced", "skipped", "error"}
ErrorEntry(s, message) ==
  [decisionId |-> s.id, citationNumber |-> s.citation_number,
   error |-> message]

\* C1: the decisions table never holds two rows with one citation number,
\* and the sync of a citation that is already stored leaves the number of
\* rows as it was (the row is overwritten, no second row is added).
C1_OneRowPerCitation ==
  /\ \A r1 \in decisionsTable, r2 \in decisionsTable :
       r1.citationNumber = r2.citationNumber => r1 = r2
  /\ (head.end = "synced" /\ head.stored) =>
       /\ Cardinality(decisionsTable) = Cardinality(head.table)
       /\ CitationsOf(decisionsTable) = CitationsOf(head.table)

\* a citation the table already held has been synced again and its row has
\* been replaced
C1_Witness ==
  /\ head.end = "synced"
  /\ head.stored
  /\ decisionsTable # head.table

\* the message of the error of a detail fetch the upstream answers with 404
NotFound(s) == "Decision not found: " \o s.citation_number

\* C3: when the detail fetch of an item fails, the run does not throw that
\* error: the error list grows by exactly one entry, for that item, with its
\* decision id and the message; total has counted the item; the table, the
\* synced and skipped counts and the ceiling counter are as they were at the
\* head of the item; and the loop goes on with the rest of the batch.
C3_FetchFailureIsolated ==
  /\ (head.end = "error" /\ Last(itemOps) = "fetch") =>
       /\ result.errors =
            Append(head.before.errors,
                   ErrorEntry(head.summary, NotFound(head.summary)))
       /\ result.total = head.before.total + 1
       /\ result.synced = head.before.synced
       /\ result.skipped = head.before.skipped
       /\ decisionsTable = head.table
       /\ decisionsProcessed = head.processed
       /\ (pc = "item" /\ calls.searches = head.calls.searches) =>
            batch = head.rest
  /\ pc = "thrown" => \A s \in Summaries : thrown.message # NotFound(s)

\* after a failed detail fetch the next item of the run has been synced
C3_Witness ==
  /\ Len(result.errors) = 1
  /\ \E s \in Summaries : result.errors[1].error = NotFound(s)
  /\ head.end = "synced"
  /\ result.total = 2
  /\ result.synced = 1

\* C4: with skipExisting, an item whose citation is stored when the item is
\* considered gets no detail fetch, no classification call and no write; the
\* lookup that answers counts it as skipped (a lookup that fails records the
\* item as an error instead); and for any item the lookup is the first step,
\* before the detail fetch.
C4_SkipExisting ==
  Truthy(options.skipExisting) /\ head.end # "none" =>
    /\ itemOps # <<>> => itemOps[1] = "lookup"
    /\ head.stored =>
         /\ itemOps \in {<<>>, <<"lookup">>}
         /\ calls.fetches = head.calls.fetches
         /\ calls.classifies = head.calls.classifies
         /\ calls.upserts = head.calls.upserts
         /\ decisionsTable = head.table
         /\ ItemEnded =>
              \/ /\ head.end = "skipped"
                 /\ result.skipped = head.before.skipped + 1
                 /\ result.errors = head.before.errors
              \/ /\ head.end = "error"
                 /\ Last(result.errors) =
                      ErrorEntry(head.summary, DbError.message)

\* an item was skipped because its citation was stored
C4_Witness ==
  /\ Truthy(options.skipExisting)
  /\ head.end = "skipped"
  /\ head.stored
  /\ result.skipped = 1

\* C5: the run considers at most maxDecisions items and fetches at most
\* maxDecisions details, whatever the items' outcomes.
C5_AtMostMaxItems ==
  runs > 0 =>
    /\ result.total <= maxDecisions
    /\ calls.fetches <= maxDecisions

\* the ceiling of the claims, stated on the run's state
CeilingReached == runs > 0 /\ decisionsProcessed >= maxDecisions

\* C6: once the ceiling is reached, the item that reached it is the last
\* item started, no search request has been issued since that item started,
\* and the page iterator is closed before anything else is done.
C6_NoPageAfterCeiling ==
  CeilingReached =>
    /\ head.end = "synced"
    /\ result.total = head.before.total + 1
    /\ calls.searches = head.calls.searches
    /\ pc \in {"item", "meta", "returned", "thrown"}
    /\ pc # "item" => gen.finished

\* the ceiling was reached on the last item of a batch while the upstream
\* had more pages, and the run returned
C6_Witness ==
  /\ CeilingReached
  /\ pc = "returned"
  /\ batch = <<>>
  /\ gen.lastHasMore

\* the classification calls that throw or answer with text that is not JSON
FailedLlm ==
  {LlmThrows} \cup {LlmText(t) : t \in {u \in LlmTexts : ~JSONparse(u).ok}}

\* C7: a classification call that throws or returns text that is not JSON
\* gives outcome "Unknown" with confidence 0.0; the item goes on to the
\* upsert with no error recorded, and once upserted it is counted as synced,
\* stored with that outcome, and the error list is as it was.
C7_ClassificationDegrades ==
  /\ \A llm \in FailedLlm :
       extractOutcome(llm) = [outcome |-> Str("Unknown"), confidence |-> Num(0)]
  /\ (head.end = "open" /\ head.llm = "failed") =>
       /\ pc = "upsert"
       /\ item.outcome = Str("Unknown")
       /\ item.outcomeConfidence = Num(0)
       /\ result.errors = head.before.errors
  /\ (head.end = "synced" /\ head.llm = "failed") =>
       /\ result.synced = head.before.synced + 1
       /\ result.errors = head.before.errors
       /\ \E r \in decisionsTable :
            /\ r.citationNumber = head.summary.citation_number
            /\ r.outcome = Str("Unknown")
            /\ r.outcomeConfidence = Num(0)
  /\ (head.end = "error" /\ head.llm = "failed") => Last(itemOps) = "upsert"

\* an item whose classification failed has been synced
C7_Witness ==
  /\ head.end = "synced"
  /\ head.llm = "failed"
  /\ result.synced = 1
  /\ result.errors = <<>>

\* C10: a run that throws has thrown the error of a failed search request.
C10_OnlySearchFailureThrows ==
  pc = "thrown" => thrown = searchDecisions(Unreachable).error

(***************************************************************************)
(* Repeated runs against one upstream: the options, the pages the search   *)
(* endpoint serves, the decisions whose detail is missing and the answers  *)
(* of the classifier are fixed for the whole behaviour, so that every run  *)
(* gets the same options and the same answers to the same requests.        *)
(***************************************************************************)
FixedBatches == SeqsUpTo(Summaries, Cardinality(Summaries)) \ {<<>>}
FixedPages == SeqsUpTo(FixedBatches, 2)

FixedUpstreams ==
  {[free |-> FALSE, drain |-> FALSE, clockEnd |-> 1, maxFaults |-> 0,
    maxServed |-> 0, options |-> {o}, pages |-> p, missing |-> m,
    llm |-> l] :
     o \in SyncOptions, p \in FixedPages,
     m \in [Citations -> BOOLEAN],
     l \in [Citations -> {LlmThrows, LlmText(T_granted)}]}

InitTwice ==
  /\ InitRun
  /\ oracle \in FixedUpstreams

SpecTwice == InitTwice /\ [][Next]_vars

\* C2: after two runs with the same options against the same upstream and
\* classifier, started on an empty store, the store holds records for the
\* same citations after the second run as after the first.
C2_SecondRunSameRecords ==
  Len(ended) = 2 =>
    CitationsOf(ended[2].table) = CitationsOf(ended[1].table)

(***************************************************************************)
(* fetchAllDecisions consumed to its end by a consumer that does nothing   *)
(* with the batches, against an upstream with a number of matches.         *)
(***************************************************************************)
DrainedUpstreams ==
  {[free |-> FALSE, drain |-> TRUE, clockEnd |-> 1, maxFaults |-> 0,
    maxServed |-> 0, matches |-> n] : n \in 0..MaxMatches}

InitPages ==
  /\ decisionsTable = {}
  /\ syncMetadataTable = {}
  /\ now = 1
  /\ served = 0
  /\ faults = 0
  /\ runs = 0
  /\ pc = "next"
  /\ options = [maxDecisions |-> Undefined, skipExisting |-> Undefined,
                extractOutcomes |-> Undefined]
  /\ result = NewResult(1)
  /\ decisionsProcessed = 0
  /\ gen = GenStart
  /\ batch = <<>>
  /\ item = NoItem
  /\ thrown = Null
  /\ calls = NoCalls
  /\ itemOps = <<>>
  /\ head = NoHead
  /\ ended = <<>>
  /\ oracle \in DrainedUpstreams
  /\ peer = NoPeer

NextPages ==
  \/ Search
  \/ Resume
  \/ Exhausted

SpecPages == InitPages /\ [][NextPages]_vars

\* C8: against an upstream with N matches served in pages of 100, the
\* generator never yields more than ceil(N/100) batches, never sends a
\* request after a response with has_more = false (so at most ceil(N/100)
\* requests, one when there is no match), and when it is consumed to its end
\* it has yielded exactly ceil(N/100) batches.
C8_PaginationTerminates ==
  LET pages == (oracle.matches + 99) \div 100
  IN /\ calls.yields <= pages
     /\ calls.searches <= (IF pages = 0 THEN 1 ELSE pages)
     /\ ~gen.hasMore => calls.searches = (IF pages = 0 THEN 1 ELSE pages)
     /\ pc = "drained" =>
          /\ calls.yields = pages
          /\ gen.finished

\* an upstream with more than two full pages has been consumed to its end
C8_Witness ==
  /\ pc = "drained"
  /\ oracle.matches > 200
  /\ oracle.matches < 300
  /\ calls.yields = 3
  /\ calls.searches = 3

(***************************************************************************)
(* parseBVADecision on details whose paragraphs carry labels that are      *)
(* spelled differently.                                                    *)
(***************************************************************************)
L_FindingsOfFact ==
  <<"F","i","n","d","i","n","g","s"," ","o","f"," ","F","a","c","t">>
L_findingsAndFacts ==
  <<"f","i","n","d","i","n","g","s"," ","a","n","d"," ","f","a","c","t","s">>
L_Analysis == <<"A","n","a","l","y","s","i","s">>
Labels ==
  {Str(L_FindingsOfFact), Str(L_findingsAndFacts), Str(L_Analysis), Undefined}

\* the paragraph at position i has the i-th letter as its text
LabelledParagraphs ==
  UNION {{[i \in 1..n |-> [section |-> l[i], text |-> <<LowerCase[i]>>]] :
            l \in [1..n -> Labels]} : n \in 0..MaxParagraphs}

ParsedUpstreams ==
  {[free |-> FALSE, drain |-> FALSE, clockEnd |-> 1, maxFaults |-> 0,
    maxServed |-> 0, paragraphs |-> p] : p \in LabelledParagraphs}

InitParse ==
  /\ InitRun
  /\ oracle \in ParsedUpstreams

\* the detail of a decision is parsed
ParseDetail ==
  /\ pc = "idle"
  /\ LET apiDecision ==
           [DetailOf(Summary("d1", "23-0001")) EXCEPT
              !.paragraphs = Arr(oracle.paragraphs)]
     IN item' = [item EXCEPT !.parsed =
          parseBVADecision(apiDecision, randomUUID(decisionsTable), now).value]
  /\ pc' = "parsed"
  /\ UNCHANGED <<decisionsTable, syncMetadataTable, now, oracle, served,
                 faults, runs, options, result, decisionsProcessed, gen, batch,
                 thrown, calls, itemOps, head, ended>>
  /\ UNCHANGED peer

SpecParse == InitParse /\ [][ParseDetail]_vars

\* C9: in the section mapping of a parsed decision, two paragraphs whose
\* labels normalize to the same standard name have their texts in one bucket.
C9_SameNameSameBucket ==
  pc = "parsed" =>
    \A i, j \in 1..Len(oracle.paragraphs) :
      LET pi == oracle.paragraphs[i]
          pj == oracle.paragraphs[j]
      IN (/\ pi.section # Undefined
          /\ pj.section # Undefined
          /\ normalizeSectionName(pi.section.v) =
               normalizeSectionName(pj.section.v)) =>
           \E k \in DOMAIN item.parsed.sections :
             /\ includes(item.parsed.sections[k], pi.text)
             /\ includes(item.parsed.sections[k], pj.text)

(***************************************************************************)
(* Runs under a clock that advances: time may pass during every await.     *)
(* The upstream serves at most one decision, so that the clock is the only *)
(* thing that multiplies the behaviours.                                   *)
(***************************************************************************)
UncappedOptions == {o \in SyncOptions : o.maxDecisions = Undefined}

InitClock ==
  /\ InitRun
  /\ oracle = [free |-> TRUE, drain |-> FALSE, clockEnd |-> MaxClock,
               maxFaults |-> 1, maxServed |-> 1, options |-> UncappedOptions,
               answers |-> SyncLlmResponses]

SpecClock == InitClock /\ [][Next]_vars

\* the errors a failing request of the outer loop or of the status write
\* raises in these specifications
FatalErrors == {searchDecisions(Unreachable).error, DbError}

\* C11: in the step in which a run throws, the run summary gets its end
\* time, which is the time of the failure, and its duration, which is the end
\* time minus the start time, and the error thrown is the error the failing
\* operation (the search request, or the status write) raised, unchanged.
C11_TimingBeforeRethrow ==
  [][(pc # "thrown" /\ pc' = "thrown") =>
       /\ result'.endTime = Num(now')
       /\ result'.duration = Num(now' - result.startTime)
       /\ result'.startTime = result.startTime
       /\ thrown' \in FatalErrors
       /\ pc \in {"next", "meta"}
       /\ pc = "next" => thrown' = searchDecisions(Unreachable).error
       /\ pc = "meta" => thrown' = DbError]_vars

\* a run that started before the clock advanced has thrown the error of a
\* failed search request
C11_Witness ==
  /\ pc = "thrown"
  /\ thrown = searchDecisions(Unreachable).error
  /\ result.duration # Num(0)
  /\ result.startTime < now

\* C12: after a run that returned, the sync_metadata table holds one row;
\* its status is completed_with_errors exactly when the run's error list is
\* not empty, completed otherwise, and its totalDecisions is the run's synced
\* count.
C12_StatusOfReturnedRun ==
  pc = "returned" =>
    /\ Cardinality(syncMetadataTable) = 1
    /\ \A r \in syncMetadataTable :
         /\ r.lastSyncStatus \in {"completed", "completed_with_errors"}
         /\ r.lastSyncStatus = "completed_with_errors" <=> result.errors # <<>>
         /\ r.totalDecisions = result.synced

\* a run with one synced decision and one error has returned
C12_Witness ==
  /\ pc = "returned"
  /\ result.synced = 1
  /\ Len(result.errors) = 1
  /\ \E r \in syncMetadataTable : r.lastSyncStatus = "completed_with_errors"

(***************************************************************************)
(* Runs in which many items fail: one page of up to MaxErrorItems items,   *)
(* the detail of some citations missing upstream.                          *)
(***************************************************************************)
ErrorUpstreams ==
  {[free |-> FALSE, drain |-> FALSE, clockEnd |-> 1, maxFaults |-> 0,
    maxServed |-> 0,
    options |-> UncappedOptions, pages |-> <<b>>, missing |-> m,
    llm |-> [c \in Citations |-> LlmThrows]] :
     b \in SeqsUpTo(Summaries, MaxErrorItems) \ {<<>>},
     m \in [Citations -> BOOLEAN]}

InitErrors ==
  /\ InitRun
  /\ oracle \in ErrorUpstreams

SpecErrors == InitErrors /\ [][Next]_vars

\* the citations of the page's items whose detail is missing, in page order
MissingCitations ==
  LET failing == SelectSeq(oracle.pages[1],
                           LAMBDA s : oracle.missing[s.citation_number])
  IN [i \in 1..Len(failing) |-> failing[i].citation_number]

\* C13: after a run that returned, the error summary of the status row is
\* null when the run had no error; otherwise it names the citations of the
\* first three entries of the error list, in the order the errors occurred
\* (all of them when there are fewer than three), which are the first three
\* items of the page whose detail fetch failed.
C13_ErrorSummaryFirstThree ==
  pc = "returned" =>
    \A r \in syncMetadataTable :
      LET cs == [i \in 1..Len(result.errors) |->
                   result.errors[i].citationNumber]
      IN /\ cs = MissingCitations
         /\ cs = <<>> => r.lastSyncError = Null
         /\ cs # <<>> =>
              /\ r.lastSyncError # Null
              /\ r.lastSyncError.count = Len(cs)
              /\ r.lastSyncError.citations =
                   (IF Len(cs) <= 3 THEN cs ELSE SubSeq(cs, 1, 3))

\* a run with four errors has returned and its summary names three citations
C13_Witness ==
  /\ pc = "returned"
  /\ Len(result.errors) = 4
  /\ \E r \in syncMetadataTable :
       /\ r.lastSyncError # Null
       /\ Len(r.lastSyncError.citations) = 3
       /\ r.lastSyncError.citations[1] # r.lastSyncError.citations[2]

\* a row that describes the run whose summary is res, written at time date
DescribesRun(r, res, date) ==
  /\ r.id = "latest"
  /\ r.lastSyncDate = date
  /\ r.totalDecisions = res.synced
  /\ r.lastSyncStatus =
       (IF res.errors = <<>> THEN "completed" ELSE "completed_with_errors")
  /\ r.lastSyncError = Null <=> res.errors = <<>>
  /\ r.lastSyncError # Null =>
       /\ r.lastSyncError.count = Len(res.errors)
       /\ \A i \in DOMAIN r.lastSyncError.citations :
            r.lastSyncError.citations[i] = res.errors[i].citationNumber

\* C14: the sync_metadata table never holds more than one row, and a row it
\* holds has the key 'latest'; the table changes only in the status write of
\* a run, and then it holds exactly one row, which describes that run: so at
\* any time it describes the last run that reached its status write.
C14_SingletonStatusRow ==
  /\ [](/\ Cardinality(syncMetadataTable) <= 1
        /\ \A r \in syncMetadataTable : r.id = "latest")
  /\ [][syncMetadataTable' # syncMetadataTable =>
          /\ pc = "meta"
          /\ pc' = "returned"
          /\ Cardinality(syncMetadataTable') = 1
          /\ \A r \in syncMetadataTable' : DescribesRun(r, result, now)]_vars

\* with no failure injected, a second run that synced nothing has returned
\* after a first run that synced a decision: the row of the first run has
\* been replaced
C14_Witness ==
  /\ runs = 2
  /\ faults = 0
  /\ pc = "returned"
  /\ decisionsTable # {}
  /\ result.synced = 0
  /\ Cardinality(syncMetadataTable) = 1
  /\ \A r \in syncMetadataTable : r.totalDecisions = 0

(***************************************************************************)
(* The client on its own: each of its three requests is made against every *)
(* outcome of the HTTP layer; head records the call and what it gave.      *)
(***************************************************************************)
NonOkStatuses ==
  (400..(400 + MaxStatusSpan)) \cup (500..(500 + MaxStatusSpan))

ClientHttp ==
  {Unreachable, BadBody} \cup {HttpStatus(st) : st \in NonOkStatuses} \cup
  {HttpOk(DetailOf(s)) : s \in Summaries}

Called(call, citationNumber, http, reply) ==
  /\ head' = [end |-> "called", call |-> call, citation |-> citationNumber,
              http |-> http, reply |-> reply]
  /\ UNCHANGED <<decisionsTable, syncMetadataTable, now, oracle, served,
                 faults, runs, pc, options, result, decisionsProcessed, gen,
                 batch, item, thrown, calls, itemOps, ended>>
  /\ UNCHANGED peer

CallSearchDecisions ==
  /\ pc = "idle"
  /\ \E http \in ClientHttp :
       Called("searchDecisions", "", http, searchDecisions(http))

CallGetDecision ==
  /\ pc = "idle"
  /\ \E http \in ClientHttp, c \in Citations :
       Called("getDecision", c, http, getDecision(c, http))

CallHealthCheck ==
  /\ pc = "idle"
  /\ \E http \in ClientHttp :
       Called("healthCheck", "", http, healthCheck(http))

InitClient ==
  /\ InitRun
  /\ oracle = [free |-> FALSE, drain |-> FALSE, clockEnd |-> 1,
               maxFaults |-> 0, maxServed |-> 0, options |-> {}]

NextClient ==
  \/ CallSearchDecisions
  \/ CallGetDecision
  \/ CallHealthCheck

SpecClient == InitClient /\ [][NextClient]_vars

\* C15: a call of searchDecisions or getDecision fails exactly when the
\* request gets no success response with a decodable body, and every failure
\* is a BVAApiError; its status is the response's status on a non-success
\* response (404 for getDecision on a 404, with the not-found message) and 0
\* when the service could not be reached.
C15_ClientErrorMapping ==
  (head.end = "called" /\ head.call \in {"searchDecisions", "getDecision"}) =>
    /\ head.reply.ok <=> head.http.kind = "ok"
    /\ ~head.reply.ok => head.reply.error.name = "BVAApiError"
    /\ head.http.kind = "status" =>
         head.reply.error.statusCode = head.http.status
    /\ head.http.kind = "unreachable" => head.reply.error.statusCode = 0
    /\ (head.call = "getDecision" /\ head.http = HttpStatus(404)) =>
         /\ head.reply.error.statusCode = 404
         /\ head.reply.error.message = "Decision not found: " \o head.citation

\* getDecision has been called while the service could not be reached
C15_Witness ==
  /\ head.end = "called"
  /\ head.call = "getDecision"
  /\ head.http = Unreachable
  /\ ~head.reply.ok
  /\ head.reply.error.statusCode = 0

\* C16: healthCheck never throws; it returns true when the health request
\* gets a success response, and false on any other response and when the
\* service cannot be reached.
C16_HealthCheckNeverThrows ==
  (head.end = "called" /\ head.call = "healthCheck") =>
    /\ head.reply.ok
    /\ head.reply.value.t = "boolean"
    /\ head.reply.value.v <=> head.http.kind \in {"ok", "badbody"}

\* healthCheck has answered false while the service could not be reached
C16_Witness ==
  /\ head.end = "called"
  /\ head.call = "healthCheck"
  /\ head.http = Unreachable
  /\ head.reply.ok
  /\ ~head.reply.value.v

(***************************************************************************)
(* Runs against a classifier that may answer anything: the upstream serves *)
(* one page with both decisions, and the classifier's answer for each      *)
(* citation is any of the texts of LlmTexts, or a failure.                 *)
(***************************************************************************)
LlmAnswers == {LlmThrows} \cup {LlmText(t) : t \in LlmTexts}

OutcomeUpstreams ==
  {[free |-> FALSE, drain |-> FALSE, clockEnd |-> 1, maxFaults |-> 0,
    maxServed |-> 0, options |-> UncappedOptions,
    pages |-> << <<Summary("d1", "23-0001"), Summary("d2", "23-0002")>> >>,
    missing |-> [c \in Citations |-> FALSE], llm |-> l] :
     l \in [Citations -> LlmAnswers]}

InitOutcomes ==
  /\ InitRun
  /\ oracle \in OutcomeUpstreams

SpecOutcomes == InitOutcomes /\ [][Next]_vars

ValidOutcomes ==
  {Str("Granted"), Str("Denied"), Str("Remanded"), Str("Mixed")}

\* the classifier's answer for the item that has just been classified
Classified == pc = "upsert" /\ itemOps # <<>> /\ Last(itemOps) = "classify"
Answer == oracle.llm[summary.citation_number]
AnswerJson == JSONparse(Answer.text)

\* C17: when the classifier's answer is well-formed JSON that is not an
\* object with an outcome among Granted, Denied, Remanded and Mixed, the
\* classification of the item is Unknown with confidence 0.0.
C17_WrongShapeDegrades ==
  (/\ Classified
   /\ Answer.kind = "text"
   /\ AnswerJson.ok
   /\ \/ AnswerJson.value.t # "object"
      \/ AnswerJson.value.outcome \notin ValidOutcomes) =>
    /\ item.outcome = Str("Unknown")
    /\ item.outcomeConfidence = Num(0)

\* C18: when the classifier's answer is a JSON object with a valid outcome
\* and no confidence, the classification of the item is that outcome with
\* confidence 0.5.
C18_ConfidenceDefault ==
  (/\ Classified
   /\ Answer.kind = "text"
   /\ AnswerJson.ok
   /\ AnswerJson.value.t = "object"
   /\ AnswerJson.value.outcome \in ValidOutcomes
   /\ AnswerJson.value.confidence = Undefined) =>
    /\ item.outcome = AnswerJson.value.outcome
    /\ item.outcomeConfidence = Num(50)

\* an item has been classified from an answer that has a valid outcome and
\* no confidence
C18_Witness ==
  /\ Classified
  /\ Answer = LlmText(T_deniedNoConf)
  /\ item.outcome = Str("Denied")
  /\ item.outcomeConfidence = Num(50)

\* C19: every row of the decisions table that carries a classification (a
\* row stored by a run with outcome extraction off carries none) has an
\* outcome among Granted, Denied, Remanded, Mixed and Unknown, and a
\* confidence between 0 and 1.
C19_OutcomeDomain ==
  \A r \in decisionsTable :
    r.outcome # Null =>
      /\ r.outcome \in ValidOutcomes \cup {Str("Unknown")}
      /\ r.outcomeConfidence.t = "number"
      /\ r.outcomeConfidence.v \in 0..100

\* C20: the generator delays once after every response that has has_more =
\* true, when the consumer has taken the batch and before the next request,
\* and not after the response that has has_more = false: while a batch is
\* held at the yield, and after the last response, there is one delay fewer
\* than requests; before each further request there are as many delays as
\* requests.  Each delay is 500 ms.
C20_DelayBetweenRequests ==
  /\ calls.searches = 0 => calls.delays = 0
  /\ calls.searches > 0 =>
       calls.delays =
         (IF ~gen.atYield /\ gen.hasMore THEN calls.searches
          ELSE calls.searches - 1)
  /\ pc = "drained" => (calls.delays = calls.yields - 1 \/ calls.yields = 0)
  /\ calls.waited = 500 * calls.delays

\* three pages have been consumed to the end with two delays
C20_Witness ==
  /\ pc = "drained"
  /\ calls.searches = 3
  /\ calls.delays = 2
  /\ calls.waited = 1000

\* C21: no step of any run removes a citation from the decisions table: the
\* set of stored citation numbers after a step holds every citation stored
\* before it, and the number of rows never goes down.
C21_NeverDeletes ==
  [][/\ CitationsOf(decisionsTable) \subseteq CitationsOf(decisionsTable')
     /\ Cardinality(decisionsTable) <= Cardinality(decisionsTable')]_vars

\* the row of a citation has been overwritten while the row of the other
\* citation is stored
C21_Witness ==
  /\ head.end = "synced"
  /\ head.stored
  /\ Cardinality(head.table) = 2
  /\ Cardinality(decisionsTable) = 2
  /\ decisionsTable # head.table

\* C22: after a run has returned, the last-sync time of the status row is
\* the end time of the returned run summary.
C22_StatusTimeIsEndTime ==
  pc = "returned" =>
    \A r \in syncMetadataTable : Num(r.lastSyncDate) = result.endTime

\* C23: in an iteration of fetchAllDecisions the request number k (k = 0, 1,
\* 2, ...) carries the offset 100 * k and the limit 100, so the first carries
\* the offset 0; and a request after the first is sent only when the response
\* to the request before it had has_more = true, that is, when the upstream
\* has matches beyond the pages requested so far.
C23_PageRequests ==
  [][calls'.searches # calls.searches =>
       /\ calls'.searches = calls.searches + 1
       /\ GenRequest(gen) = [offset |-> 100 * calls.searches, limit |-> 100]
       /\ calls.searches = 0 => GenRequest(gen).offset = 0
       /\ calls.searches > 0 =>
            MatchesPage(oracle.matches,
                        [offset |-> 100 * (calls.searches - 1),
                         limit |-> 100]).has_more]_vars

\* the third request, with the offset 200, has been answered with the last
\* matches
C23_Witness ==
  /\ calls.searches = 3
  /\ gen.atYield
  /\ gen.offset = 200
  /\ ~gen.lastHasMore

\* the steps of the loop body in the order of the code, for the options of
\* the current run
StepOrder ==
  IF ExtractionEnabled THEN <<"fetch", "parse", "classify", "upsert">>
  ELSE <<"fetch", "parse", "upsert">>

\* the steps taken for the current item, the existence lookup left out
StepsTaken == SelectSeq(itemOps, LAMBDA op : op # "lookup")

IsPrefix(p, q) == Len(p) <= Len(q) /\ p = SubSeq(q, 1, Len(p))

\* C24: the steps taken for an item are always an initial part of the order
\* detail fetch, parse, classify (when enabled), upsert, so no step runs
\* twice or out of order; classify and upsert run only with the parsed
\* detail at hand; an item that is synced went through every step; an item
\* that ended in an error stops at the step that failed, and no step runs
\* for an item that has ended; and since the head of the item the run has made at
\* most one detail fetch, one classification call and one upsert attempt.
C24_StepOrderNoRetry ==
  (Running /\ head.end # "none") =>
    /\ IsPrefix(StepsTaken, StepOrder)
    /\ pc \in {"classify", "upsert"} =>
         /\ head.end = "open"
         /\ item.parsed # Undefined
         /\ Len(StepsTaken) >= 2
    /\ pc = "upsert" => Len(StepsTaken) = Len(StepOrder) - 1
    /\ head.end = "synced" => StepsTaken = StepOrder
    /\ head.end = "skipped" => itemOps = <<"lookup">>
    /\ head.end = "error" =>
         Len(result.errors) = Len(head.before.errors) + 1
    /\ head.end # "open" =>
         pc \notin {"lookup", "fetch", "classify", "upsert"}
    /\ calls.fetches - head.calls.fetches \in {0, 1}
    /\ calls.classifies - head.calls.classifies \in {0, 1}
    /\ calls.upserts - head.calls.upserts \in {0, 1}
    /\ calls.fetches - head.calls.fetches =
         Len(SelectSeq(itemOps, LAMBDA op : op = "fetch"))
    /\ calls.classifies - head.calls.classifies =
         Len(SelectSeq(itemOps, LAMBDA op : op = "classify"))
    /\ calls.upserts - head.calls.upserts =
         Len(SelectSeq(itemOps, LAMBDA op : op = "upsert"))

\* the parse of an item failed in a run that classifies: the item ended in
\* an error after the fetch and the parse, without classification and upsert
C24_Witness ==
  /\ head.end = "error"
  /\ ExtractionEnabled
  /\ itemOps = <<"fetch", "parse">>
  /\ calls.classifies = head.calls.classifies
  /\ calls.upserts = head.calls.upserts

\* the items of the first k pages of the upstream, in the order it serves
\* them
RECURSIVE ItemsOfPages(_)
ItemsOfPages(k) ==
  IF k <= 0 THEN <<>>
  ELSE ItemsOfPages(k - 1) \o OraclePage((k - 1) * limit).decisions

InStep == pc \in {"lookup", "fetch", "classify", "upsert"}

\* C25: the items of a run are handled one at a time in the order in which
\* the upstream serves them, within a page and across pages: the k-th item
\* the run starts is the k-th item of the pages requested so far; while a
\* step of an item runs, that item is the only one that is open and the
\* locals of the loop body belong to it; and the next page is requested only
\* when every item of the pages requested so far has been started and has
\* ended as synced, skipped or error.
C25_StrictlySequential ==
  Running =>
    /\ head.end # "none" =>
         /\ result.total >= 1
         /\ result.total <= Len(ItemsOfPages(head.calls.searches))
         /\ result.total > Len(ItemsOfPages(head.calls.searches - 1))
         /\ head.summary = ItemsOfPages(head.calls.searches)[result.total]
         /\ calls.searches # head.calls.searches =>
              /\ calls.searches = head.calls.searches + 1
              /\ head.end # "open"
              /\ result.total = Len(ItemsOfPages(head.calls.searches))
    /\ InStep =>
         /\ head.end = "open"
         /\ batch = <<head.summary>> \o head.rest
    /\ ~InStep => item = NoItem
    /\ item.parsed # Undefined =>
         item.parsed.citationNumber = head.summary.citation_number
    /\ pc = "next" =>
         /\ batch = <<>>
         /\ head.end # "open"
         /\ result.total = Len(ItemsOfPages(calls.searches))
         /\ result.total =
              result.synced + result.skipped + Len(result.errors)

\* the item of a second page is open after the two items of the first page
\* have ended
C25_Witness ==
  /\ pc = "fetch"
  /\ calls.searches = 2
  /\ Len(oracle.pages[1]) = 2
  /\ result.total = 3
  /\ head.end = "open"
  /\ head.summary = oracle.pages[2][1]

(***************************************************************************)
(* normalizeSectionName on labels made of the words of its vocabulary and  *)
(* of a word that is not in it, in lower case, in upper case, and with     *)
(* white space around them.                                                *)
(***************************************************************************)
W_remand == <<"r","e","m","a","n","d">>

LabelWords ==
  <<W_introduction, W_intro, W_finding, W_fact, W_analysis, W_discussion,
    W_reason, W_base, W_conclusion, W_order, W_evidence, W_procedural,
    W_remand>>

\* most words of a label
MaxLabelWords == 3

UpperChar(c) ==
  IF \E i \in 1..Len(LowerCase) : LowerCase[i] = c
  THEN UpperCase[CHOOSE i \in 1..Len(LowerCase) : LowerCase[i] = c]
  ELSE c

\* the words with the numbers ws, separated by blanks
RECURSIVE JoinWords(_)
JoinWords(ws) ==
  IF Len(ws) = 1 THEN LabelWords[ws[1]]
  ELSE JoinWords(SubSeq(ws, 1, Len(ws) - 1)) \o <<" ">> \o
       LabelWords[ws[Len(ws)]]

LabelStyles == {"lower", "upper", "padded"}

LabelText(ws, style) ==
  LET text == JoinWords(ws)
  IN CASE style = "upper" -> [i \in 1..Len(text) |-> UpperChar(text[i])]
       [] style = "padded" ->
            <<" ", "\t", UpperChar(text[1])>> \o Tail(text) \o <<" ", "\n">>
       [] OTHER -> text

LabelUpstreams ==
  {[free |-> FALSE, drain |-> FALSE, clockEnd |-> 1, maxFaults |-> 0,
    maxServed |-> 0, words |-> ws, style |-> st] :
     ws \in SeqsUpTo(1..Len(LabelWords), MaxLabelWords) \ {<<>>},
     st \in LabelStyles}

InitNormalize ==
  /\ InitRun
  /\ oracle \in LabelUpstreams

\* a label is normalized
NormalizeLabel ==
  /\ pc = "idle"
  /\ LET sectionName == LabelText(oracle.words, oracle.style)
     IN head' = [end |-> "normalized", label |-> sectionName,
                 name |-> normalizeSectionName(sectionName)]
  /\ pc' = "normalized"
  /\ UNCHANGED <<decisionsTable, syncMetadataTable, now, oracle, served,
                 faults, runs, options, result, decisionsProcessed, gen, batch,
                 item, thrown, calls, itemOps, ended>>
  /\ UNCHANGED peer

SpecNormalize == InitNormalize /\ [][NormalizeLabel]_vars

\* the label has the word with the number w
HasWord(w) == \E k \in 1..Len(oracle.words) : oracle.words[k] = w

\* which rules the label matches, in the order of their precedence, and the
\* names the rules give
RuleMatches ==
  <<HasWord(1) \/ HasWord(2), HasWord(3) \/ HasWord(4),
    HasWord(5) \/ HasWord(6), HasWord(7) /\ HasWord(8),
    HasWord(9) \/ HasWord(10), HasWord(11), HasWord(12)>>
RuleNames ==
  <<W_introduction, W_findings_of_fact, W_analysis, W_reasons_and_bases,
    W_conclusion, W_evidence, W_procedural_history>>

\* C26: the name of a label is the name of the first rule it matches in the
\* order introduction/intro, finding/fact, analysis/discussion, reason and
\* base, conclusion/order, evidence, procedural, whatever later rules it
\* matches as well and whatever the case of its letters; a label that
\* matches no rule is returned as it is.
C26_FirstRuleWins ==
  head.end = "normalized" =>
    LET matched == {i \in 1..Len(RuleMatches) : RuleMatches[i]}
    IN /\ matched # {} =>
            head.name =
              RuleNames[CHOOSE i \in matched : \A j \in matched : i <= j]
       /\ matched = {} => head.name = head.label

\* a label in upper case with reason, base and finding is named
\* findings_of_fact
C26_Witness ==
  /\ head.end = "normalized"
  /\ oracle.style = "upper"
  /\ HasWord(7)
  /\ HasWord(8)
  /\ HasWord(3)
  /\ head.name = W_findings_of_fact

(***************************************************************************)
(* Runs that sync a citation again: no failure is injected, the upstream   *)
(* may serve a decision more than once, and the classifier may answer      *)
(* every call with any text of LlmTexts or fail.                           *)
(***************************************************************************)
InitOverwrite ==
  /\ InitRun
  /\ oracle = [free |-> TRUE, drain |-> FALSE, clockEnd |-> 1,
               maxFaults |-> 0, maxServed |-> MaxServed,
               options |-> UncappedOptions, answers |-> LlmAnswers]

SpecOverwrite == InitOverwrite /\ [][Next]_vars

\* C27: in the step that syncs an item, the row stored for its citation gets
\* the content fields parsed from the detail fetched for this item and the
\* outcome and the confidence computed for this item (null where none was
\* computed), whether or not the citation was stored before; when it was,
\* the row's last-updated time is the time of this sync.
C27_LastWriteWins ==
  [][(pc = "upsert" /\ head'.end = "synced") =>
       \E r \in decisionsTable' :
         /\ r.citationNumber = summary.citation_number
         /\ r.bvaApiId = item.parsed.bvaApiId
         /\ r.sections = item.parsed.sections
         /\ r.syncedAt = item.parsed.syncedAt
         /\ r.outcome = Inserted(item.outcome)
         /\ r.outcomeConfidence = Inserted(item.outcomeConfidence)
         /\ head.stored => r.lastUpdated \in now..now']_vars

\* the items of the run summary res that have reached their outcome
Accounted(res) == res.synced + res.skipped + Len(res.errors)

\* C28: whenever no item is open, and so at every item boundary and in the
\* summary the run returns, total = synced + skipped + number of error
\* entries, and while an item is open total is one ahead; an item that has
\* ended has added one to total and one to exactly one of synced, skipped
\* and the error list, which got one entry at its end; and within a run no
\* counter ever goes down and the error list only grows at its end.
C28_RunAccounting ==
  /\ [](/\ (runs > 0 /\ ~InStep) => result.total = Accounted(result)
        /\ InStep => result.total = Accounted(result) + 1
        /\ (Running /\ ItemEnded) =>
             /\ result.total = head.before.total + 1
             /\ \/ /\ head.end = "synced"
                   /\ result.synced = head.before.synced + 1
                   /\ result.skipped = head.before.skipped
                   /\ result.errors = head.before.errors
                \/ /\ head.end = "skipped"
                   /\ result.synced = head.before.synced
                   /\ result.skipped = head.before.skipped + 1
                   /\ result.errors = head.before.errors
                \/ /\ head.end = "error"
                   /\ result.synced = head.before.synced
                   /\ result.skipped = head.before.skipped
                   /\ Len(result.errors) = Len(head.before.errors) + 1
                   /\ IsPrefix(head.before.errors, result.errors))
  /\ [][runs' = runs =>
          /\ result'.total \in {result.total, result.total + 1}
          /\ result'.synced \in {result.synced, result.synced + 1}
          /\ result'.skipped \in {result.skipped, result.skipped + 1}
          /\ IsPrefix(result.errors, result'.errors)
          /\ Len(result'.errors) <= Len(result.errors) + 1]_vars

\* a run in which one item was synced, one skipped and one failed has
\* returned
C28_Witness ==
  /\ pc = "returned"
  /\ result.synced = 1
  /\ result.skipped = 1
  /\ Len(result.errors) = 1
  /\ result.total = 3

\* the ceiling the caller asked for: the maxDecisions option when it is a
\* number from 1 on, the default of 100 otherwise
AskedCeiling ==
  IF options.maxDecisions.t = "number" /\ options.maxDecisions.v >= 1
  THEN options.maxDecisions.v ELSE 100

\* C29: in a run the counter that is compared with maxDecisions always
\* equals the synced count of the run summary, and the synced count never
\* exceeds the ceiling; an item that was skipped or that failed leaves the
\* counter as it was at the head of the item, and only a synced item adds
\* one to it.
C29_CeilingCountsSynced ==
  runs > 0 =>
    /\ decisionsProcessed = result.synced
    /\ result.synced <= AskedCeiling
    /\ maxDecisions = AskedCeiling
    /\ (Running /\ head.end \in {"open", "skipped", "error"}) =>
         decisionsProcessed = head.processed
    /\ (Running /\ head.end = "synced") =>
         decisionsProcessed = head.processed + 1

\* under a ceiling of one, an item is synced after another item failed or
\* was skipped: the run has started more items than the ceiling
C29_Witness ==
  /\ options.maxDecisions = Num(1)
  /\ head.end = "synced"
  /\ result.synced = 1
  /\ result.skipped + Len(result.errors) = 1
  /\ result.total = 2

\* C30: a run that throws because a search request failed has not written
\* the status row and has lost no decision: the status table changes only in
\* the step in which a run returns, the decisions table changes only in the
\* upsert of an item, and the step in which the run throws leaves both
\* tables as they are; so in a run that has thrown the status row is the one
\* from before the run (it was written no later than the run started) and
\* the decision synced last in this run is stored.
C30_FatalRunKeepsWrites ==
  /\ [][/\ pc' # "returned" => syncMetadataTable' = syncMetadataTable
        /\ pc # "upsert" => decisionsTable' = decisionsTable
        /\ (pc = "next" /\ pc' = "thrown") =>
             /\ thrown' = searchDecisions(Unreachable).error
             /\ syncMetadataTable' = syncMetadataTable
             /\ decisionsTable' = decisionsTable]_vars
  /\ []((pc = "thrown" /\ thrown = searchDecisions(Unreachable).error) =>
          /\ Cardinality(decisionsTable) >= result.synced
          /\ head.end = "synced" =>
               \E r \in decisionsTable :
                 r.citationNumber = head.summary.citation_number
          /\ \A r \in syncMetadataTable : r.lastSyncDate <= result.startTime)

\* a second run has synced a decision and then thrown on the request for the
\* next page, while the status row of the first run is stored
C30_Witness ==
  /\ runs = 2
  /\ pc = "thrown"
  /\ thrown = searchDecisions(Unreachable).error
  /\ calls.searches = 2
  /\ result.synced = 1
  /\ decisionsTable # {}
  /\ syncMetadataTable # {}

\* C31: from the head of an item on, the decisions table is as it was at the
\* head of the item as long as the item is open and when it has ended as
\* skipped or as an error, whichever step failed; only an item that ends as
\* synced has written the table, in its upsert.
C31_OnlySyncedItemsWrite ==
  (Running /\ head.end \in {"open", "skipped", "error"}) =>
    /\ decisionsTable = head.table
    /\ head.end # "open" => decisionsProcessed = head.processed
    /\ head.end # "open" => result.synced = head.before.synced

\* the upsert of an item failed while another decision is stored: the table
\* is as it was
C31_Witness ==
  /\ head.end = "error"
  /\ Last(itemOps) = "upsert"
  /\ head.table # {}
  /\ decisionsTable = head.table

\* C32: a sync of a citation that is already stored leaves the id of its row
\* as it was; so does every other step.
C32_StableInternalId ==
  (Running /\ head.end # "none") =>
    \A old \in head.table, r \in decisionsTable :
      r.citationNumber = old.citationNumber => r.id = old.id

\* C33: in a run with extractOutcomes = false the classifier is never
\* called, and the row of every item the run syncs has no outcome and no
\* confidence, also when the row stored before had them.
C33_NoExtractionNoOutcome ==
  (runs > 0 /\ options.extractOutcomes = Bool(FALSE)) =>
    /\ calls.classifies = 0
    /\ pc # "classify"
    /\ \A i \in 1..Len(itemOps) : itemOps[i] # "classify"
    /\ (Running /\ head.end = "synced") =>
         \A r \in decisionsTable :
           r.citationNumber = head.summary.citation_number =>
             /\ r.outcome = Null
             /\ r.outcomeConfidence = Null

\* a run with extractOutcomes = false has synced a citation whose stored row
\* had an outcome and a confidence
C33_Witness ==
  /\ options.extractOutcomes = Bool(FALSE)
  /\ head.end = "synced"
  /\ \E old \in head.table :
       /\ old.citationNumber = head.summary.citation_number
       /\ old.outcome # Null
       /\ old.outcomeConfidence # Null
  /\ \E r \in decisionsTable :
       /\ r.citationNumber = head.summary.citation_number
       /\ r.outcome = Null

\* C34: when the classifier's answer is a JSON object with a valid outcome
\* and a confidence, the classification of the item has exactly that
\* confidence, 0 included.
C34_ConfidencePassThrough ==
  (/\ Classified
   /\ Answer.kind = "text"
   /\ AnswerJson.ok
   /\ AnswerJson.value.t = "object"
   /\ AnswerJson.value.outcome \in ValidOutcomes
   /\ AnswerJson.value.confidence # Undefined) =>
    /\ item.outcome = AnswerJson.value.outcome
    /\ item.outcomeConfidence = AnswerJson.value.confidence

(***************************************************************************)
(* Runs whose awaits all complete: every request, statement and delay of a *)
(* running syncDecisions returns or fails, so a step of the run that is    *)
(* enabled is eventually taken.  Whether another run is started is up to   *)
(* the caller and is not forced.  The upstream is a free one that serves   *)
(* at most one decision and fails at most one request; it answers          *)
(* has_more = false at the latest after MaxMorePages + 1 pages.            *)
(***************************************************************************)
\* the options with maxDecisions: 0
ZeroCeilingOptions ==
  {[o EXCEPT !.maxDecisions = Num(0)] : o \in SyncOptions}

InitFair ==
  /\ InitRun
  /\ oracle = [free |-> TRUE, drain |-> FALSE, clockEnd |-> 1,
               maxFaults |-> 1, maxServed |-> 1,
               options |-> SyncOptions \cup ZeroCeilingOptions,
               answers |-> SyncLlmResponses]

RunStep ==
  \/ Search
  \/ Resume
  \/ Exhausted
  \/ ItemHead
  \/ Lookup
  \/ FetchDetail
  \/ Classify
  \/ UpsertDecision
  \/ UpdateMetadata

SpecFair == InitFair /\ [][Next]_vars /\ WF_vars(RunStep)

\* C35: under SpecFair every run eventually returns, with end time and
\* duration set, or throws; and a run leaves its loops towards the return
\* only after a search answered has_more = false or when the ceiling is
\* reached, which only synced items count for: skipped and failed items
\* never end a run.
C35_RunTerminates ==
  /\ [](Running => <>(pc \in {"returned", "thrown"}))
  /\ [](pc = "returned" =>
          result.endTime # Undefined /\ result.duration # Undefined)
  /\ []((runs > 0 /\ pc \in {"meta", "returned"}) =>
          ~gen.hasMore \/ CeilingReached)
  /\ [](runs > 0 => decisionsProcessed = result.synced)

\* a run has returned below its ceiling after an item that was skipped or
\* failed, and after a search that answered has_more = false
C35_Witness ==
  /\ pc = "returned"
  /\ ~CeilingReached
  /\ ~gen.hasMore
  /\ result.skipped + Len(result.errors) > 0
  /\ result.endTime # Undefined

(***************************************************************************)
(* Two calls of syncDecisions against the same store.  A call runs between *)
(* two awaits without interruption, so the interleavings are those of the  *)
(* actions: at every await the other call may go on.  The variables hold   *)
(* the locals of the call that takes the next step, peer those of the      *)
(* other one; the tables, the clock and the upstream are shared.           *)
(***************************************************************************)
Switch ==
  /\ runs > 0
  /\ peer' = [pc |-> pc, options |-> options, result |-> result,
              decisionsProcessed |-> decisionsProcessed, gen |-> gen,
              batch |-> batch, item |-> item, thrown |-> thrown,
              calls |-> calls, itemOps |-> itemOps, head |-> head]
  /\ pc' = peer.pc
  /\ options' = peer.options
  /\ result' = peer.result
  /\ decisionsProcessed' = peer.decisionsProcessed
  /\ gen' = peer.gen
  /\ batch' = peer.batch
  /\ item' = peer.item
  /\ thrown' = peer.thrown
  /\ calls' = peer.calls
  /\ itemOps' = peer.itemOps
  /\ head' = peer.head
  /\ UNCHANGED <<decisionsTable, syncMetadataTable, now, oracle, served,
                 faults, runs, ended>>

\* the upstream has one page with both decisions; the calls differ in
\* skipExisting only
InitPair ==
  /\ InitRun
  /\ oracle = [free |-> FALSE, drain |-> FALSE, clockEnd |-> 1,
               maxFaults |-> 0, maxServed |-> 0,
               options |-> {o \in UncappedOptions :
                              o.extractOutcomes = Undefined},
               pages |-> <<<<Summary("d1", "23-0001"),
                             Summary("d2", "23-0002")>>>>,
               missing |-> [c \in Citations |-> FALSE],
               llm |-> [c \in Citations |-> LlmText(T_granted)]]

NextPair ==
  \/ Next
  \/ Switch

SpecPair == InitPair /\ [][NextPair]_vars

\* C36: however two runs interleave, the decisions table never has two rows
\* with the same citation number.
C36_OneRowPerCitation ==
  \A r1, r2 \in decisionsTable :
    r1.citationNumber = r2.citationNumber => r1 = r2

\* two interleaved runs with skipExisting = true have both looked the same
\* citation up, found it absent, fetched, classified and written it, and the
\* table has one row of it
C36_Witness ==
  LET steps == <<"lookup", "fetch", "parse", "classify", "upsert">>
  IN /\ options.skipExisting = Bool(TRUE)
     /\ peer.options.skipExisting = Bool(TRUE)
     /\ head.end = "synced"
     /\ peer.head.end = "synced"
     /\ head.summary = peer.head.summary
     /\ itemOps = steps
     /\ peer.itemOps = steps
     /\ ~head.stored
     /\ Cardinality({r \in decisionsTable :
          r.citationNumber = head.summary.citation_number}) = 1

\* C37: a step in which fetchAllDecisions yields hands a batch with at least
\* one decision to the loop; a page without decisions is not yielded, the
\* generator goes on behind it at the next offset, and when that page said
\* has_more = true its loop continues with another request.
C37_YieldsNonEmpty ==
  [][/\ calls'.yields = calls.yields + 1 =>
          /\ Len(batch') > 0
          /\ gen'.atYield
          /\ pc' = "item"
     /\ (/\ calls'.searches = calls.searches + 1
         /\ calls'.yields = calls.yields
         /\ pc' # "thrown") =>
          /\ pc' = "next"
          /\ batch' = batch
          /\ ~gen'.atYield
          /\ gen'.offset = gen.offset + limit
          /\ gen'.hasMore => GenLoops(gen')]_vars

\* behind a page without decisions that said has_more = true the generator
\* has requested the next page and yielded its decisions
C37_Witness ==
  /\ calls.searches = 2
  /\ calls.yields = 1
  /\ gen.offset = limit
  /\ gen.atYield
  /\ Len(batch) > 0
  /\ pc = "item"

\* C38: a run with maxDecisions = 0 has the ceiling of a run without
\* maxDecisions, 100: the ceiling test is decisionsProcessed >= 100, the
\* items of a batch are taken while fewer than 100 are synced, and the run
\* leaves its loops for the return only when the generator is at its end.
C38_ZeroCeilingIsDefault ==
  (runs > 0 /\ options.maxDecisions = Num(0)) =>
    /\ maxDecisions = DefaultMaxDecisions
    /\ maxDecisions =
         maxDecisionsOf([options EXCEPT !.maxDecisions = Undefined])
    /\ maxDecisions =
         maxDecisionsOf([options EXCEPT !.maxDecisions = Num(100)])
    /\ LimitReached(decisionsProcessed, maxDecisions) <=>
         decisionsProcessed >= 100
    /\ pc \in {"meta", "returned"} =>
         ~gen.hasMore \/ decisionsProcessed >= 100

\* a run with maxDecisions = 0 has synced a decision and returned
C38_Witness ==
  /\ options.maxDecisions = Num(0)
  /\ pc = "returned"
  /\ result.synced > 0
  /\ decisionsProcessed = result.synced

\* C39: when the response has a success status and a body that does not
\* decode, searchDecisions and getDecision throw a BVAApiError with status
\* 0, the status they throw with when the service cannot be reached, though
\* the service answered.
C39_UndecodableBodyIsStatusZero ==
  (/\ head.end = "called"
   /\ head.call \in {"searchDecisions", "getDecision"}
   /\ head.http = BadBody) =>
    /\ head.http.status \in 200..299
    /\ ~head.reply.ok
    /\ head.reply.error.name = "BVAApiError"
    /\ head.reply.error.statusCode = 0
    /\ head.reply.error.statusCode =
         searchDecisions(Unreachable).error.statusCode
    /\ head.reply.error.statusCode =
         getDecision(head.citation, Unreachable).error.statusCode

\* getDecision was called and the response was a 200 with a body that does
\* not decode
C39_Witness ==
  /\ head.end = "called"
  /\ head.call = "getDecision"
  /\ head.http = BadBody
  /\ head.reply = Threw(BVAApiError("Network error: " \o BadBody.message, 0))

====
